---- MODULE Spec2Model ----
(***************************************************************************)
(* Parcel tracker: the Record Store (src/parcel.go) over one SQLite table  *)
(* `parcel` and the Tracking Service (src/main.go) above it.               *)
(*                                                                         *)
(* The database is modelled as a working SQLite connection: a statement    *)
(* fails only where SQL semantics make it fail (QueryRow.Scan on an empty  *)
(* result gives sql.ErrNoRows).  I/O failures of the connection are the    *)
(* external collaborator's and are not modelled.                           *)
(***************************************************************************)
EXTENDS Integers, Sequences, FiniteSets, TLC

VARIABLES
    table,   \* rows of table `parcel`: number -> [client, status, address, created_at]
    last,    \* the last completed call: operation, arguments, returned values
    issued,  \* history: the numbers returned by successful Adds so far
    pc,      \* per caller: position inside an interleaved NextStatus
    local    \* per caller: the `number` argument and the `parcel` read by Get

vars == <<table, last, issued, pc, local>>

----------------------------------------------------------------------------
(* Bounds *)

MaxNumber == 2       \* the model stops inserting once rowid MaxNumber is in use
MaxCallers == 2      \* concurrent callers of the interleaved specification

----------------------------------------------------------------------------
(* Constants and data model *)

ParcelStatusRegistered == "registered"
ParcelStatusSent == "sent"
ParcelStatusDelivered == "delivered"

Nil == "nil"
ErrNoRows == "sql: no rows in result set"

Numbers == 1..MaxNumber
Callers == 1..MaxCallers
Clients == {1, 2}
Addresses == {"A", "B"}
Times == {"2026-11-05T10:00:00Z"}
\* the store takes any string as a status; "lost" stands for the strings
\* that are none of the three constants
AnyStatus == {ParcelStatusRegistered, ParcelStatusSent, ParcelStatusDelivered, "lost"}
\* values a caller may leave in Parcel.Number before Add (the INSERT ignores it)
InputNumbers == {0, 9}

Parcel(number, client, status, address, createdAt) ==
    [Number |-> number, Client |-> client, Status |-> status,
     Address |-> address, CreatedAt |-> createdAt]

ZeroParcel == Parcel(0, 0, "", "", "")

InputParcels ==
    {Parcel(n, c, s, a, t) : n \in InputNumbers, c \in Clients, s \in AnyStatus,
                             a \in Addresses, t \in Times}

NoRow == "<no row>"

NoCall ==
    [op |-> "none", number |-> 0, client |-> 0, text |-> "", parcel |-> ZeroParcel,
     list |-> <<>>, err |-> Nil, execs |-> 0, before |-> NoRow]

\* `before` is the status the row `number` had when the call began
Before(t, number) == IF number \in DOMAIN t THEN t[number].status ELSE NoRow

Call(op, number, client, text, parcel, list, err, execs, before) ==
    [op |-> op, number |-> number, client |-> client, text |-> text,
     parcel |-> parcel, list |-> list, err |-> err, execs |-> execs,
     before |-> before]

----------------------------------------------------------------------------
(* The table and its statements *)

MaxOf(S) == CHOOSE x \in S : \A y \in S : y <= x

\* number INTEGER PRIMARY KEY: an INSERT without a number takes one more
\* than the largest number currently in the table (1 for an empty table)
NewRowid(t) == IF DOMAIN t = {} THEN 1 ELSE MaxOf(DOMAIN t) + 1

\* row.Scan / rows.Scan of the five selected columns into a Parcel
Scan(t, n) ==
    Parcel(n, t[n].client, t[n].status, t[n].address, t[n].created_at)

\* all orders in which the rows of S can be returned (no ORDER BY)
Orders(S) ==
    {s \in [1..Cardinality(S) -> S] : \A i, j \in 1..Cardinality(S) : s[i] = s[j] => i = j}

\* Add with the address and created_at parameters bound in the wrong order
ParcelStore_Add_SwappedColumns(t, p) ==
    LET id == NewRowid(t)
        row == [client |-> p.Client, status |-> p.Status,
                address |-> p.CreatedAt, created_at |-> p.Address]
    IN [table |-> (id :> row) @@ t, id |-> id, err |-> Nil]

ParcelStore_Add(t, p) ==
    LET id == NewRowid(t)
        row == [client |-> p.Client, status |-> p.Status,
                address |-> p.Address, created_at |-> p.CreatedAt]
    IN [table |-> (id :> row) @@ t, id |-> id, err |-> Nil]

ParcelStore_Get(t, number) ==
    IF number \in DOMAIN t
    THEN [parcel |-> Scan(t, number), err |-> Nil]
    ELSE [parcel |-> ZeroParcel, err |-> ErrNoRows]

\* GetByClient whose SELECT has lost its WHERE clause
ParcelStore_GetByClient_NoWhere(t, client) ==
    {[i \in 1..Cardinality(DOMAIN t) |-> Scan(t, o[i])] : o \in Orders(DOMAIN t)}

\* the set of slices GetByClient may return (one per row order)
ParcelStore_GetByClient(t, client) ==
    LET match == {n \in DOMAIN t : t[n].client = client}
    IN {[i \in 1..Cardinality(match) |-> Scan(t, o[i])] : o \in Orders(match)}

\* SetStatus guarded like SetAddress: only a registered row is updated
ParcelStore_SetStatus_Guarded(t, number, status) ==
    [table |-> [n \in DOMAIN t |->
                  IF n = number /\ t[n].status = ParcelStatusRegistered
                  THEN [t[n] EXCEPT !.status = status] ELSE t[n]],
     err |-> Nil]

ParcelStore_SetStatus(t, number, status) ==
    [table |-> [n \in DOMAIN t |->
                  IF n = number THEN [t[n] EXCEPT !.status = status] ELSE t[n]],
     err |-> Nil]

\* SetAddress whose UPDATE has lost the status guard
ParcelStore_SetAddress_NoGuard(t, number, address) ==
    [table |-> [n \in DOMAIN t |->
                  IF n = number THEN [t[n] EXCEPT !.address = address] ELSE t[n]],
     err |-> Nil]

ParcelStore_SetAddress(t, number, address) ==
    [table |-> [n \in DOMAIN t |->
                  IF n = number /\ t[n].status = ParcelStatusRegistered
                  THEN [t[n] EXCEPT !.address = address] ELSE t[n]],
     err |-> Nil]

\* Delete whose DELETE has lost the status guard
ParcelStore_Delete_NoGuard(t, number) ==
    [table |-> [n \in DOMAIN t \ {number} |-> t[n]], err |-> Nil]

ParcelStore_Delete(t, number) ==
    LET keep == {n \in DOMAIN t : ~(n = number /\ t[n].status = ParcelStatusRegistered)}
    IN [table |-> [n \in keep |-> t[n]], err |-> Nil]

----------------------------------------------------------------------------
(* Tracking Service *)

ParcelService_Register(t, client, address, now) ==
    LET parcel == Parcel(0, client, ParcelStatusRegistered, address, now)
        r == ParcelStore_Add(t, parcel)
    IN IF r.err # Nil
       THEN [table |-> t, parcel |-> parcel, id |-> 0, err |-> r.err]
       ELSE [table |-> r.table, parcel |-> [parcel EXCEPT !.Number = r.id],
             id |-> r.id, err |-> Nil]

\* the switch with the registered case skipping to delivered
NextStatusSwitch_Skip(status) ==
    IF status = ParcelStatusRegistered
    THEN [return |-> FALSE, nextStatus |-> ParcelStatusDelivered]
    ELSE IF status = ParcelStatusSent
    THEN [return |-> FALSE, nextStatus |-> ParcelStatusDelivered]
    ELSE IF status = ParcelStatusDelivered
    THEN [return |-> TRUE, nextStatus |-> ""]
    ELSE [return |-> FALSE, nextStatus |-> ""]

\* the switch without the delivered case
NextStatusSwitch_NoDelivered(status) ==
    IF status = ParcelStatusRegistered
    THEN [return |-> FALSE, nextStatus |-> ParcelStatusSent]
    ELSE IF status = ParcelStatusSent
    THEN [return |-> FALSE, nextStatus |-> ParcelStatusDelivered]
    ELSE [return |-> FALSE, nextStatus |-> ""]

\* the switch with the delivered case wrapping around to registered
NextStatusSwitch_Wrap(status) ==
    IF status = ParcelStatusRegistered
    THEN [return |-> FALSE, nextStatus |-> ParcelStatusSent]
    ELSE IF status = ParcelStatusSent
    THEN [return |-> FALSE, nextStatus |-> ParcelStatusDelivered]
    ELSE IF status = ParcelStatusDelivered
    THEN [return |-> FALSE, nextStatus |-> ParcelStatusRegistered]
    ELSE [return |-> FALSE, nextStatus |-> ""]

\* the switch of NextStatus: `return` is the early return of the delivered
\* case; a status matching no case leaves nextStatus at its zero value ""
NextStatusSwitch(status) ==
    IF status = ParcelStatusRegistered
    THEN [return |-> FALSE, nextStatus |-> ParcelStatusSent]
    ELSE IF status = ParcelStatusSent
    THEN [return |-> FALSE, nextStatus |-> ParcelStatusDelivered]
    ELSE IF status = ParcelStatusDelivered
    THEN [return |-> TRUE, nextStatus |-> ""]
    ELSE [return |-> FALSE, nextStatus |-> ""]

\* the part of NextStatus after the Get: switch, then SetStatus
NextStatusWrite(t, number, parcel) ==
    LET sw == NextStatusSwitch(parcel.Status)
    IN IF sw.return
       THEN [table |-> t, err |-> Nil, execs |-> 0]
       ELSE [table |-> ParcelStore_SetStatus(t, number, sw.nextStatus).table,
             err |-> ParcelStore_SetStatus(t, number, sw.nextStatus).err,
             execs |-> 1]

ParcelService_NextStatus(t, number) ==
    LET g == ParcelStore_Get(t, number)
    IN IF g.err # Nil
       THEN [table |-> t, err |-> g.err, execs |-> 0]
       ELSE NextStatusWrite(t, number, g.parcel)

ParcelService_ChangeAddress(t, number, address) ==
    ParcelStore_SetAddress(t, number, address)

ParcelService_Delete(t, number) ==
    ParcelStore_Delete(t, number)

\* the set of outputs PrintClientParcels may print (one line per parcel)
ParcelService_PrintClientParcels(t, client) ==
    ParcelStore_GetByClient(t, client)

----------------------------------------------------------------------------
(* State after setupTestDB / main's CREATE TABLE: an empty table *)

Init ==
    /\ table = <<>>
    /\ last = NoCall
    /\ issued = {}
    /\ pc = [c \in Callers |-> "idle"]
    /\ local = [c \in Callers |-> [number |-> 0, parcel |-> ZeroParcel]]

----------------------------------------------------------------------------
(* Calls of the Record Store *)

Add ==
    \E p \in InputParcels :
        LET r == ParcelStore_Add(table, p)
        IN /\ NewRowid(table) <= MaxNumber
           /\ table' = r.table
           /\ issued' = issued \cup {r.id}
           /\ last' = Call("Add", r.id, 0, "", p, <<>>, r.err, 1, Before(table, r.id))
           /\ UNCHANGED <<pc, local>>

Get ==
    \E number \in Numbers :
        LET r == ParcelStore_Get(table, number)
        IN /\ last' = Call("Get", number, 0, "", r.parcel, <<>>, r.err, 0, Before(table, number))
           /\ UNCHANGED <<table, issued, pc, local>>

GetByClient ==
    \E client \in Clients :
        \E parcels \in ParcelStore_GetByClient(table, client) :
            /\ last' = Call("GetByClient", 0, client, "", ZeroParcel, parcels, Nil, 0, NoRow)
            /\ UNCHANGED <<table, issued, pc, local>>

SetStatus ==
    \E number \in Numbers, status \in AnyStatus :
        LET r == ParcelStore_SetStatus(table, number, status)
        IN /\ table' = r.table
           /\ last' = Call("SetStatus", number, 0, status, ZeroParcel, <<>>, r.err, 1, Before(table, number))
           /\ UNCHANGED <<issued, pc, local>>

SetAddress ==
    \E number \in Numbers, address \in Addresses :
        LET r == ParcelStore_SetAddress(table, number, address)
        IN /\ table' = r.table
           /\ last' = Call("SetAddress", number, 0, address, ZeroParcel, <<>>, r.err, 1, Before(table, number))
           /\ UNCHANGED <<issued, pc, local>>

Delete ==
    \E number \in Numbers :
        LET r == ParcelStore_Delete(table, number)
        IN /\ table' = r.table
           /\ last' = Call("Delete", number, 0, "", ZeroParcel, <<>>, r.err, 1, Before(table, number))
           /\ UNCHANGED <<issued, pc, local>>

----------------------------------------------------------------------------
(* Calls of the Tracking Service *)

Register ==
    \E client \in Clients, address \in Addresses, now \in Times :
        LET r == ParcelService_Register(table, client, address, now)
        IN /\ NewRowid(table) <= MaxNumber
           /\ table' = r.table
           /\ issued' = IF r.err = Nil THEN issued \cup {r.id} ELSE issued
           /\ last' = Call("Register", r.id, client, address, r.parcel, <<>>, r.err, 1, Before(table, r.id))
           /\ UNCHANGED <<pc, local>>

NextStatus ==
    \E number \in Numbers :
        LET r == ParcelService_NextStatus(table, number)
        IN /\ table' = r.table
           /\ last' = Call("NextStatus", number, 0, "", ZeroParcel, <<>>, r.err, r.execs, Before(table, number))
           /\ UNCHANGED <<issued, pc, local>>

ChangeAddress ==
    \E number \in Numbers, address \in Addresses :
        LET r == ParcelService_ChangeAddress(table, number, address)
        IN /\ table' = r.table
           /\ last' = Call("ChangeAddress", number, 0, address, ZeroParcel, <<>>, r.err, 1, Before(table, number))
           /\ UNCHANGED <<issued, pc, local>>

ServiceDelete ==
    \E number \in Numbers :
        LET r == ParcelService_Delete(table, number)
        IN /\ table' = r.table
           /\ last' = Call("ServiceDelete", number, 0, "", ZeroParcel, <<>>, r.err, 1, Before(table, number))
           /\ UNCHANGED <<issued, pc, local>>

PrintClientParcels ==
    \E client \in Clients :
        \E lines \in ParcelService_PrintClientParcels(table, client) :
            /\ last' = Call("PrintClientParcels", 0, client, "", ZeroParcel, lines, Nil, 0, NoRow)
            /\ UNCHANGED <<table, issued, pc, local>>

----------------------------------------------------------------------------
(* NextStatus of several callers, one store statement per step.  `last`   *)
(* is the record of the single caller and is not written here.             *)

\* parcel, err := s.store.Get(number); if err != nil { return err }
NextStatusGet(c) ==
    \E number \in Numbers :
        LET g == ParcelStore_Get(table, number)
        IN /\ pc[c] = "idle"
           /\ g.err = Nil
           /\ pc' = [pc EXCEPT ![c] = "set"]
           /\ local' = [local EXCEPT ![c] = [number |-> number, parcel |-> g.parcel]]
           /\ UNCHANGED <<table, last, issued>>

\* switch parcel.Status { ... }; return s.store.SetStatus(number, nextStatus)
NextStatusSet(c) ==
    LET r == NextStatusWrite(table, local[c].number, local[c].parcel)
    IN /\ pc[c] = "set"
       /\ table' = r.table
       /\ pc' = [pc EXCEPT ![c] = "idle"]
       /\ local' = [local EXCEPT ![c] = [number |-> 0, parcel |-> ZeroParcel]]
       /\ UNCHANGED <<last, issued>>

----------------------------------------------------------------------------
(* Specifications *)

\* one caller, every operation of the store and of the service
Next ==
    \/ Add
    \/ Get
    \/ GetByClient
    \/ SetStatus
    \/ SetAddress
    \/ Delete
    \/ Register
    \/ NextStatus
    \/ ChangeAddress
    \/ ServiceDelete
    \/ PrintClientParcels

Spec == Init /\ [][Next]_vars

\* one caller that goes through the Tracking Service only
ServiceNext ==
    \/ Register
    \/ NextStatus
    \/ ChangeAddress
    \/ ServiceDelete
    \/ PrintClientParcels

ServiceSpec == Init /\ [][ServiceNext]_vars

\* several callers; Register is one statement, NextStatus is two
ConcNext ==
    \/ Register
    \/ \E c \in Callers : NextStatusGet(c)
    \/ \E c \in Callers : NextStatusSet(c)

ConcSpec == Init /\ [][ConcNext]_vars

----------------------------------------------------------------------------
(* Properties *)

Chain == {ParcelStatusRegistered, ParcelStatusSent, ParcelStatusDelivered}

Kept == DOMAIN table \cap DOMAIN table'

\* C1: through the Tracking Service alone (Register, NextStatus,
\* ChangeAddress, Delete) every change of a parcel's stored status is
\* registered->sent or sent->delivered: never backward, never registered->
\* delivered, never away from delivered.
C1_StatusChain ==
    [][\A n \in Kept :
          table'[n].status # table[n].status =>
              <<table[n].status, table'[n].status>> \in
                  {<<ParcelStatusRegistered, ParcelStatusSent>>,
                   <<ParcelStatusSent, ParcelStatusDelivered>>}]_vars

\* a service NextStatus has just taken a parcel from sent to delivered
C1_Witness ==
    /\ last.op = "NextStatus"
    /\ last.before = ParcelStatusSent
    /\ last.number \in DOMAIN table
    /\ table[last.number].status = ParcelStatusDelivered

\* C2: the number returned by a successful Add differs from the number
\* returned by every earlier successful Add, deleted parcels included.
C2_NumberNeverReused ==
    [][last'.op = "Add" /\ last'.err = Nil => last'.number \notin issued]_vars

\* C3: Delete(number) returns no error; a registered parcel's row is removed
\* and a following Get fails; a sent or delivered parcel's row stays with
\* every field unchanged and a following Get succeeds.
C3_Delete ==
    [][LET n == last'.number IN
       (last'.op \in {"Delete", "ServiceDelete"} /\ n \in DOMAIN table
            /\ table[n].status \in Chain) =>
           /\ last'.err = Nil
           /\ IF table[n].status = ParcelStatusRegistered
              THEN /\ n \notin DOMAIN table'
                   /\ ParcelStore_Get(table', n).err # Nil
              ELSE /\ n \in DOMAIN table'
                   /\ table'[n] = table[n]
                   /\ ParcelStore_Get(table', n).err = Nil
                   /\ ParcelStore_Get(table', n).parcel = Scan(table, n)]_vars

\* Delete was called on a sent parcel, and the parcel is still stored
C3_Witness ==
    /\ last.op = "Delete"
    /\ last.before = ParcelStatusSent
    /\ last.err = Nil
    /\ last.number \in DOMAIN table

\* C4: SetAddress / ChangeAddress returns no error; on a registered parcel a
\* following Get returns the new address; on a sent or delivered parcel the
\* row is unchanged.  Hence a stored parcel's address only changes in a step
\* that starts with the parcel registered.
C4_AddressGuard ==
    [][/\ LET n == last'.number IN
          (last'.op \in {"SetAddress", "ChangeAddress"} /\ n \in DOMAIN table
               /\ table[n].status \in Chain) =>
              /\ last'.err = Nil
              /\ IF table[n].status = ParcelStatusRegistered
                 THEN /\ ParcelStore_Get(table', n).err = Nil
                      /\ ParcelStore_Get(table', n).parcel.Address = last'.text
                 ELSE /\ n \in DOMAIN table'
                      /\ table'[n] = table[n]
       /\ \A n \in Kept :
              table'[n].address # table[n].address =>
                  table[n].status = ParcelStatusRegistered]_vars

\* SetAddress was called on a sent parcel with another address than the
\* stored one, and the stored address is still the old one
C4_Witness ==
    /\ last.op = "SetAddress"
    /\ last.before = ParcelStatusSent
    /\ last.err = Nil
    /\ last.number \in DOMAIN table
    /\ table[last.number].address # last.text

\* C5: Add(P) succeeds with a non-zero number n, and Get(n) right after it
\* succeeds with client, status, address and created_at equal to P's and
\* number n.
C5_RoundTrip ==
    [][last'.op = "Add" =>
           LET n == last'.number
               p == last'.parcel
               g == ParcelStore_Get(table', n)
           IN /\ last'.err = Nil
              /\ n # 0
              /\ g.err = Nil
              /\ g.parcel.Number = n
              /\ g.parcel.Client = p.Client
              /\ g.parcel.Status = p.Status
              /\ g.parcel.Address = p.Address
              /\ g.parcel.CreatedAt = p.CreatedAt]_vars

\* Add into a store that already holds a parcel, of a parcel whose Number
\* field was set by the caller
C5_Witness ==
    /\ last.op = "Add"
    /\ last.err = Nil
    /\ last.number > 1
    /\ last.parcel.Number # 0
    /\ last.number \in DOMAIN table

\* C6: GetByClient(c) returns without error exactly the stored parcels whose
\* client is c, each with its current fields, none of another client, none
\* twice; an empty collection when there is none.
C6_GetByClient ==
    last.op = "GetByClient" =>
        LET want == {Scan(table, n) : n \in {m \in DOMAIN table : table[m].client = last.client}}
            got == {last.list[i] : i \in 1..Len(last.list)}
        IN /\ last.err = Nil
           /\ got = want
           /\ Len(last.list) = Cardinality(want)

\* GetByClient returned a parcel while a parcel of another client is stored
C6_Witness ==
    /\ last.op = "GetByClient"
    /\ Len(last.list) >= 1
    /\ \E n \in DOMAIN table : table[n].client # last.client

\* C7: NextStatus returns no error and takes registered to sent, sent to
\* delivered; on a delivered parcel it issues no write and the status stays
\* delivered.  Number, client, address and created_at are unchanged.
C7_NextStatus ==
    [][LET n == last'.number IN
       (last'.op = "NextStatus" /\ n \in DOMAIN table /\ table[n].status \in Chain) =>
           /\ last'.err = Nil
           /\ DOMAIN table' = DOMAIN table
           /\ \A m \in DOMAIN table : m # n => table'[m] = table[m]
           /\ table'[n].client = table[n].client
           /\ table'[n].address = table[n].address
           /\ table'[n].created_at = table[n].created_at
           /\ table[n].status = ParcelStatusRegistered => table'[n].status = ParcelStatusSent
           /\ table[n].status = ParcelStatusSent => table'[n].status = ParcelStatusDelivered
           /\ table[n].status = ParcelStatusDelivered =>
                  /\ table'[n].status = ParcelStatusDelivered
                  /\ last'.execs = 0]_vars

\* NextStatus was called on a delivered parcel
C7_Witness ==
    /\ last.op = "NextStatus"
    /\ last.before = ParcelStatusDelivered
    /\ last.err = Nil
    /\ last.execs = 0
    /\ table[last.number].status = ParcelStatusDelivered

\* C8: SetStatus overwrites the status of the parcel with that number
\* whatever its current status, changes no other field and no other parcel,
\* and with no such parcel returns no error and leaves the store unchanged.
C8_SetStatus ==
    [][last'.op = "SetStatus" =>
           LET n == last'.number IN
           /\ last'.err = Nil
           /\ DOMAIN table' = DOMAIN table
           /\ \A m \in DOMAIN table : m # n => table'[m] = table[m]
           /\ n \in DOMAIN table =>
                  /\ table'[n].status = last'.text
                  /\ table'[n].client = table[n].client
                  /\ table'[n].address = table[n].address
                  /\ table'[n].created_at = table[n].created_at]_vars

\* SetStatus has put a delivered parcel back to registered
C8_Witness ==
    /\ last.op = "SetStatus"
    /\ last.before = ParcelStatusDelivered
    /\ last.number \in DOMAIN table
    /\ table[last.number].status = ParcelStatusRegistered

\* C9: whatever status string a stored parcel has, after NextStatus its
\* status is unchanged or is sent or delivered.
C9_NextStatusInChain ==
    [][LET n == last'.number IN
       (last'.op = "NextStatus" /\ n \in DOMAIN table) =>
           \/ table'[n].status = table[n].status
           \/ table'[n].status \in {ParcelStatusSent, ParcelStatusDelivered}]_vars

\* C10 as stated: with NextStatus calls of several callers interleaved
\* statement by statement, the status never goes from delivered back to
\* sent nor from sent back to registered.
C10_NoRegression ==
    [][\A n \in Kept :
          <<table[n].status, table'[n].status>> \notin
              {<<ParcelStatusDelivered, ParcelStatusSent>>,
               <<ParcelStatusDelivered, ParcelStatusRegistered>>,
               <<ParcelStatusSent, ParcelStatusRegistered>>}]_vars

\* C10 amended: under the same interleaving the status never returns to
\* registered and never skips from registered to delivered; the only
\* changes are registered->sent, sent->delivered and delivered->sent.
C10_NeverBackToRegistered ==
    [][\A n \in Kept :
          table'[n].status # table[n].status =>
              <<table[n].status, table'[n].status>> \in
                  {<<ParcelStatusRegistered, ParcelStatusSent>>,
                   <<ParcelStatusSent, ParcelStatusDelivered>>,
                   <<ParcelStatusDelivered, ParcelStatusSent>>}]_vars

\* a caller is about to write from a read of `registered` while another
\* caller has already taken the parcel to delivered
C10_Witness ==
    \E c \in Callers :
        /\ pc[c] = "set"
        /\ local[c].parcel.Status = ParcelStatusRegistered
        /\ local[c].number \in DOMAIN table
        /\ table[local[c].number].status = ParcelStatusDelivered

====
